---- MODULE Spec2Model ----
(***************************************************************************)
(* A model of the tile-map game: the asset-loading gate, the scene decode  *)
(* into tile entities and the board, the renderer attachment, and the      *)
(* player movement / camera systems, frame by frame.                       *)
(*                                                                         *)
(* A frame is: First (time, input, asset server) -> StateTransitions ->    *)
(* [OnEnter(Game) systems, then their command buffers] -> Update systems   *)
(* in an order the executor picks (the program declares none) -> the       *)
(* Update command buffers.                                                 *)
(*                                                                         *)
(* f32 world coordinates are fixed-point integers, Scale units per world   *)
(* unit; frame delta times are integers in milliseconds.  A usize raw tile *)
(* value n is the record [hi, lo] with n = hi * 2^31 + lo, so that the     *)
(* `as i32` cast of load_scene keeps its 32-bit behaviour.                 *)
(***************************************************************************)
EXTENDS Integers, Sequences, FiniteSets, TLC

VARIABLES
    dataJson,       \* content of data.json: a sequence of layers of raw values
    loadState,      \* AssetServer: load state of each tracked asset
    scenes,         \* Assets<Scene>: <<>> or <<the loaded scene>>
    appState,       \* State<AppState>
    nextState,      \* NextState<AppState>: "None" or the state to enter
    board,          \* CurrentBoard.tiles: a set of entries [k |-> position, e |-> entity]
    world,          \* the entities: entity id -> components
    nextEntity,     \* the next entity id to reserve
    commands,       \* the command buffers not yet applied
    phase,          \* where the frame is
    pending,        \* the systems of this phase that have not run yet
    keys,           \* Input<KeyCode>: the keys just pressed this frame
    dt,             \* Time: this frame's delta, in milliseconds
    frame,          \* number of frames started
    crashed,        \* the process panicked
    loadSceneRuns   \* history: how many times load_scene has run

vars == <<dataJson, loadState, scenes, appState, nextState, board, world,
          nextEntity, commands, phase, pending, keys, dt, frame, crashed,
          loadSceneRuns>>

----------------------------------------------------------------------------
(* Bounds of the model *)

MaxFrames == 4          \* frames explored
MaxCoord == 1           \* the player's target stays within -MaxCoord..MaxCoord
MaxLayers == 2          \* layers of a scene

(* Program constants *)

TILE_SIZE == 16
MAP_WIDTH == 32
MAP_HALF == 16
PLAYER_SPEED == 10
POSITION_TOLERANCE_INV == 10    \* POSITION_TOLERANCE = 0.1 = 1 / 10
PLAYER_Z == 5
PLAYER_SPRITE == 95
ZOOM_FACTOR_TENTHS == 9         \* projection.scale *= 0.9
ZOOM_MIN == 500                 \* clamp(0.5, 5.0), in thousandths
ZOOM_MAX == 5000
CAMERA_FAR_TENTHS == 9999       \* Camera2dBundle: z = 999.9

Scale == 100                    \* fixed-point units per world unit
ZoomOne == 1000                 \* OrthographicProjection.scale = 1.0
MaxI32 == 2147483647
MinI32 == (0 - MaxI32) - 1

NoVec == <<>>
AppStates == {"Loading", "Game"}

----------------------------------------------------------------------------
(* vectors::Vector3Int *)

Vector3Int(x, y, z) == <<x, y, z>>

VecAdd(a, b) == <<a[1] + b[1], a[2] + b[2], a[3] + b[3]>>

\* Eq / Hash over all three components
VecEq(a, b) == a[1] = b[1] /\ a[2] = b[2] /\ a[3] = b[3]

UP == Vector3Int(0, 1, 0)
DOWN == Vector3Int(0, -1, 0)
LEFT == Vector3Int(-1, 0, 0)
RIGHT == Vector3Int(1, 0, 0)

----------------------------------------------------------------------------
(* Raw tile values and the scene file *)

Raw(n) == [hi |-> 0, lo |-> n]
RawBig(n) == [hi |-> 1, lo |-> n]      \* 2^31 + n
RawZero == Raw(0)

\* a layer of length len, zero except for the cells of `cells`
LayerOf(len, cells) ==
    [i \in 1..len |-> IF (i - 1) \in DOMAIN cells THEN cells[i - 1] ELSE RawZero]

ScenesOver(layers) ==
    UNION {[1..n -> layers] : n \in 0..MaxLayers}

\* the scene files of the whole-program specification
MainLayers == { LayerOf(34, (0 :> Raw(1)) @@ (33 :> Raw(2))) }

MainScenes == ScenesOver(MainLayers)

----------------------------------------------------------------------------
(* Entities and components *)

Blank ==
    [camera |-> FALSE, player |-> FALSE, tile |-> -1, v |-> NoVec,
     translation |-> NoVec, sprite |-> -1, scale |-> 0, added |-> FALSE,
     src |-> NoVec]     \* src: history, the <<layer, pos>> a tile was decoded from

CameraEntity == 0

\* spawn_camera: Camera2dBundle::default()
spawn_camera ==
    [Blank EXCEPT !.camera = TRUE,
                  !.translation = <<0, 0, (CAMERA_FAR_TENTHS * Scale) \div 10>>,
                  !.scale = ZoomOne]

Tiles == {e \in DOMAIN world : world[e].tile >= 0}
Players == {e \in DOMAIN world : world[e].player}
Cameras == {e \in DOMAIN world : world[e].camera}

\* Query::get_single: the one element of a set of exactly one
IsSingle(S) == Cardinality(S) = 1
Single(S) == CHOOSE e \in S : TRUE

get_world_position(v) ==
    <<TILE_SIZE * Scale * v[1], TILE_SIZE * Scale * v[2], Scale * v[3]>>

----------------------------------------------------------------------------
(* Command buffers *)

SpawnCmd(e, isPlayer, tileIndex, v, src) ==
    [op |-> "spawn", e |-> e, player |-> isPlayer, tile |-> tileIndex, v |-> v,
     sprite |-> -1, translation |-> NoVec, src |-> src]

InsertSpriteCmd(e, sprite, translation) ==
    [op |-> "insert", e |-> e, player |-> FALSE, tile |-> -1, v |-> NoVec,
     sprite |-> sprite, translation |-> translation, src |-> NoVec]

ApplyCommand(w, c) ==
    IF c.op = "spawn"
    THEN (c.e :> [Blank EXCEPT !.player = c.player, !.tile = c.tile, !.v = c.v,
                               !.added = TRUE, !.src = c.src]) @@ w
    ELSE IF c.e \in DOMAIN w
         THEN [w EXCEPT ![c.e].sprite = c.sprite, ![c.e].translation = c.translation]
         ELSE w

RECURSIVE ApplyCommands(_, _)
ApplyCommands(w, cs) ==
    IF cs = <<>> THEN w ELSE ApplyCommands(ApplyCommand(w, Head(cs)), Tail(cs))

----------------------------------------------------------------------------
(* The environment: asset server, keyboard, clock *)

AssetIds == {"scene", "texture"}

\* load_assets: AssetList holds the scene handle, then the texture handle
AssetList == <<"scene", "texture">>

\* what the asset server can report for an asset one frame later
AssetProgress(s) ==
    CASE s = "NotLoaded" -> {"NotLoaded", "Loading", "Loaded", "Failed"}
      [] s = "Loading" -> {"Loading", "Loaded", "Failed"}
      [] s = "Loaded" -> {"Loaded"}
      [] s = "Failed" -> {"Failed"}

\* AssetServer::get_group_load_state over the handles, in order
RECURSIVE GroupLoadStateFrom(_, _, _)
GroupLoadStateFrom(ls, ids, acc) ==
    IF ids = <<>> THEN acc
    ELSE LET s == ls[Head(ids)] IN
         IF s = "Loaded" THEN GroupLoadStateFrom(ls, Tail(ids), acc)
         ELSE IF s = "Failed" THEN "Failed"
         ELSE GroupLoadStateFrom(ls, Tail(ids), s)

GroupLoadState(ls) == GroupLoadStateFrom(ls, AssetList, "Loaded")

Keys == {"W", "S", "A", "D"}

\* a mapping with the A and D rows exchanged
DIR_KEY_MAPPING_Swapped ==
    <<[key |-> "W", dir |-> UP], [key |-> "S", dir |-> DOWN],
      [key |-> "A", dir |-> RIGHT], [key |-> "D", dir |-> LEFT]>>

DIR_KEY_MAPPING == <<[key |-> "W", dir |-> UP], [key |-> "S", dir |-> DOWN],
                     [key |-> "A", dir |-> LEFT], [key |-> "D", dir |-> RIGHT]>>

\* the key chords and frame deltas (ms) the whole-program specification offers
MainChords == {{}, {"D"}, {"W", "A"}}
MainDeltas == {50, 200}

----------------------------------------------------------------------------
(* load_scene *)

\* `*i as i32`: the low 32 bits, two's complement
AsI32(raw) == IF raw.hi = 1 THEN (raw.lo - MaxI32) - 1 ELSE raw.lo

\* `(*i as i32) - 1` overflows for i32::MIN: a panic in a debug build
SubOverflows(raw) == AsI32(raw) = MinI32

\* `let index: i32 = (*i as i32) - 1`, wrapping in a release build
DecodeIndex(raw) == IF SubOverflows(raw) THEN MaxI32 ELSE AsI32(raw) - 1

TileX(pos) == (pos % MAP_WIDTH) - MAP_HALF
\* rows counted upwards instead of downwards
TileY_Flipped(pos) == (pos \div MAP_WIDTH) - MAP_HALF

TileY(pos) == MAP_HALF - (pos \div MAP_WIDTH)

\* `let mut z: i32 = 0`, never changed by the loops
TileZ(layer) == 0

\* an insert that keeps the entry already there
BoardInsert_KeepFirst(b, k, e) ==
    IF \E x \in b : VecEq(x.k, k) THEN b ELSE b \cup {[k |-> k, e |-> e]}

\* HashMap::insert: replaces the entry of an equal key
BoardInsert(b, k, e) ==
    {x \in b : ~VecEq(x.k, k)} \cup {[k |-> k, e |-> e]}

BoardLookup(b, k) == {x.e : x \in {y \in b : VecEq(y.k, k)}}

\* cell <<l, p>>: layer number l (1-based in the sequence), flat position p
CellRaw(s, c) == s[c[1]][c[2] + 1]

\* the sequence of the elements of a set of integers, ascending
RECURSIVE Ascending(_)
Ascending(S) ==
    IF S = {} THEN <<>>
    ELSE LET m == CHOOSE x \in S : \A y \in S : x <= y
         IN <<m>> \o Ascending(S \ {m})

\* the two loops of load_scene from layer number l on: the cells a tile is
\* placed for, in layer order then raster order, and whether the index
\* subtraction panicked on the way (a debug build stops there)
RECURSIVE PlacedCellsFrom(_, _, _)
PlacedCellsFrom(s, l, build) ==
    IF l > Len(s) THEN [cells |-> <<>>, panic |-> FALSE]
    ELSE LET layer == s[l]
             over == {p \in 0..(Len(layer) - 1) : SubOverflows(layer[p + 1])}
             panics == build = "debug" /\ over # {}
             stop == CHOOSE p \in over : \A q \in over : p <= q
             placed == Ascending({p \in 0..(Len(layer) - 1) :
                                    /\ panics => p < stop
                                    /\ DecodeIndex(layer[p + 1]) >= 0})
             here == [k \in 1..Len(placed) |-> <<l, placed[k]>>]
         IN IF panics THEN [cells |-> here, panic |-> TRUE]
            ELSE LET rest == PlacedCellsFrom(s, l + 1, build)
                 IN [cells |-> here \o rest.cells, panic |-> rest.panic]

PlacementOf(s, c) ==
    [v |-> Vector3Int(TileX(c[2]), TileY(c[2]), TileZ(c[1] - 1)),
     i |-> DecodeIndex(CellRaw(s, c)), src |-> <<c[1] - 1, c[2]>>]

RECURSIVE InsertPlacements(_, _, _, _)
InsertPlacements(b, s, cells, e) ==
    IF cells = <<>> THEN b
    ELSE InsertPlacements(BoardInsert(b, PlacementOf(s, Head(cells)).v, e),
                          s, Tail(cells), e + 1)

\* a decode that spawns a placeholder tile when it placed none
SpawnTiles_Placeholder(s, cells, e) ==
    IF cells = <<>>
    THEN <<SpawnCmd(e, FALSE, 0, Vector3Int(0, 0, 0), <<0, 0>>)>>
    ELSE [k \in 1..Len(cells) |->
            LET pl == PlacementOf(s, cells[k])
            IN SpawnCmd(e + k - 1, FALSE, pl.i, pl.v, pl.src)]

SpawnTiles(s, cells, e) ==
    [k \in 1..Len(cells) |->
        LET pl == PlacementOf(s, cells[k])
        IN SpawnCmd(e + k - 1, FALSE, pl.i, pl.v, pl.src)]

load_scene ==
    /\ phase = "OnEnter" /\ "load_scene" \in pending /\ ~crashed
    /\ pending' = pending \ {"load_scene"}
    /\ loadSceneRuns' = loadSceneRuns + 1
    /\ IF scenes = <<>>
       THEN UNCHANGED <<scenes, board, commands, nextEntity, crashed>>
       ELSE \E build \in {"debug", "release"} :
            LET s == scenes[1]
                run == PlacedCellsFrom(s, 1, build)
            IN /\ scenes' = <<>>
               /\ board' = InsertPlacements(board, s, run.cells, nextEntity)
               /\ commands' = IF run.panic THEN commands
                              ELSE commands \o SpawnTiles(s, run.cells, nextEntity)
               /\ nextEntity' = nextEntity + Len(run.cells)
               /\ crashed' = run.panic
    /\ UNCHANGED <<dataJson, loadState, appState, nextState, world, phase, keys,
                   dt, frame>>

----------------------------------------------------------------------------
(* load_player and the command buffers *)

load_player ==
    /\ phase = "OnEnter" /\ "load_player" \in pending /\ ~crashed
    /\ pending' = pending \ {"load_player"}
    /\ commands' = Append(commands,
            SpawnCmd(nextEntity, TRUE, -1, Vector3Int(0, 0, PLAYER_Z), NoVec))
    /\ nextEntity' = nextEntity + 1
    /\ UNCHANGED <<dataJson, loadState, scenes, appState, nextState, board, world,
                   phase, keys, dt, frame, crashed, loadSceneRuns>>

\* the systems of the Update set; check_asset_loading is in OnUpdate(Loading)
UpdateSystems(st) ==
    {"spawn_scene_renderer", "zoom_2d", "spawn_player_renderer", "player_position",
     "update_player_position", "camera_follow_player"}
    \cup (IF st = "Loading" THEN {"check_asset_loading"} ELSE {})

\* the systems of OnEnter(st)
OnEnterSystems(st) == IF st = "Game" THEN {"load_scene", "load_player"} ELSE {}

\* the end of a schedule: its command buffers are applied
apply_system_buffers ==
    /\ phase \in {"OnEnter", "Update"} /\ pending = {} /\ ~crashed
    /\ world' = ApplyCommands(world, commands)
    /\ commands' = <<>>
    /\ phase' = IF phase = "OnEnter" THEN "Update" ELSE "First"
    /\ pending' = IF phase = "OnEnter" THEN UpdateSystems(appState) ELSE {}
    /\ UNCHANGED <<dataJson, loadState, scenes, appState, nextState, board,
                   nextEntity, keys, dt, frame, crashed, loadSceneRuns>>

\* a transition that leaves the request in place
TakeNextState_Kept(ns) == ns

\* what NextState holds once apply_state_transition has taken it
TakeNextState(ns) == "None"

apply_state_transition ==
    /\ phase = "StateTransitions" /\ ~crashed
    /\ IF nextState # "None"
       THEN /\ appState' = nextState
            /\ nextState' = TakeNextState(nextState)
            /\ phase' = "OnEnter"
            /\ pending' = OnEnterSystems(nextState)
       ELSE /\ phase' = "Update"
            /\ pending' = UpdateSystems(appState)
            /\ UNCHANGED <<appState, nextState>>
    /\ UNCHANGED <<dataJson, loadState, scenes, board, world, nextEntity, commands,
                   keys, dt, frame, crashed, loadSceneRuns>>

----------------------------------------------------------------------------
(* The start of a frame: clock, keyboard, asset server *)

\* player_position's loop over DIR_KEY_MAPPING
RECURSIVE ApplyKeysFrom(_, _, _)
ApplyKeysFrom(v, ks, mapping) ==
    IF mapping = <<>> THEN v
    ELSE ApplyKeysFrom(IF Head(mapping).key \in ks THEN VecAdd(v, Head(mapping).dir)
                       ELSE v,
                       ks, Tail(mapping))

\* a loop that stops at the first pressed key
ApplyKeys_FirstOnly(v, ks) ==
    IF "W" \in ks THEN VecAdd(v, UP)
    ELSE IF "S" \in ks THEN VecAdd(v, DOWN)
    ELSE IF "A" \in ks THEN VecAdd(v, LEFT)
    ELSE IF "D" \in ks THEN VecAdd(v, RIGHT)
    ELSE v

\* a loop that takes D for pressed in every frame
ApplyKeys_StuckKey(v, ks) == ApplyKeysFrom(v, ks \cup {"D"}, DIR_KEY_MAPPING)

ApplyKeys(v, ks) == ApplyKeysFrom(v, ks, DIR_KEY_MAPPING)

InBox(v) == /\ v[1] \in (0 - MaxCoord)..MaxCoord
            /\ v[2] \in (0 - MaxCoord)..MaxCoord

\* the chords that keep the player's target within the model's box
ChordAllowed(ks) ==
    \A e \in Players : InBox(ApplyKeys(world[e].v, ks))

FrameFirst(chords, deltas) ==
    /\ phase = "First" /\ ~crashed /\ frame < MaxFrames
    /\ frame' = frame + 1
    /\ phase' = "StateTransitions"
    /\ \E ks \in chords : ChordAllowed(ks) /\ keys' = ks
    /\ \E d \in deltas : dt' = d
    /\ \E ls \in [AssetIds -> {"NotLoaded", "Loading", "Loaded", "Failed"}] :
          /\ \A a \in AssetIds : ls[a] \in AssetProgress(loadState[a])
          /\ loadState' = ls
          /\ scenes' = IF loadState["scene"] # "Loaded" /\ ls["scene"] = "Loaded"
                       THEN <<dataJson>> ELSE scenes
    /\ UNCHANGED <<dataJson, appState, nextState, board, world, nextEntity,
                   commands, pending, crashed, loadSceneRuns>>

----------------------------------------------------------------------------
(* The Update systems *)

Runs(sys) == phase = "Update" /\ sys \in pending /\ ~crashed
Ran(sys) == pending' = pending \ {sys}

\* a gate that opens on a failed load too
NextStateOnCheck_AnyEnd(group, ns) ==
    IF group \in {"Loaded", "Failed"} THEN "Game" ELSE ns

\* check_asset_loading's match on the group load state
NextStateOnCheck(group, ns) == IF group = "Loaded" THEN "Game" ELSE ns

check_asset_loading ==
    /\ Runs("check_asset_loading") /\ Ran("check_asset_loading")
    /\ nextState' = NextStateOnCheck(GroupLoadState(loadState), nextState)
    /\ UNCHANGED <<dataJson, loadState, scenes, appState, board, world, nextEntity,
                   commands, phase, keys, dt, frame, crashed, loadSceneRuns>>

\* Added<Tile> / Added<Player>: added and not yet seen by the renderer system
AddedTiles == {e \in Tiles : world[e].added /\ world[e].v # NoVec}
AddedPlayers == {e \in Players : world[e].added /\ world[e].v # NoVec}

\* change detection that never forgets an added component
ClearAdded_Never(w, S) == w

ClearAdded(w, S) == [e \in DOMAIN w |-> IF e \in S THEN [w[e] EXCEPT !.added = FALSE]
                                        ELSE w[e]]

spawn_scene_renderer ==
    /\ Runs("spawn_scene_renderer") /\ Ran("spawn_scene_renderer")
    /\ LET seen == Ascending(AddedTiles)
       IN /\ commands' = commands \o
                [k \in 1..Len(seen) |->
                    InsertSpriteCmd(seen[k], world[seen[k]].tile,
                                    get_world_position(world[seen[k]].v))]
          /\ world' = ClearAdded(world, AddedTiles)
    /\ UNCHANGED <<dataJson, loadState, scenes, appState, nextState, board,
                   nextEntity, phase, keys, dt, frame, crashed, loadSceneRuns>>

spawn_player_renderer ==
    /\ Runs("spawn_player_renderer") /\ Ran("spawn_player_renderer")
    /\ IF IsSingle(AddedPlayers)
       THEN LET e == Single(AddedPlayers)
            IN commands' = Append(commands,
                    InsertSpriteCmd(e, PLAYER_SPRITE, get_world_position(world[e].v)))
       ELSE UNCHANGED commands
    /\ world' = ClearAdded(world, AddedPlayers)
    /\ UNCHANGED <<dataJson, loadState, scenes, appState, nextState, board,
                   nextEntity, phase, keys, dt, frame, crashed, loadSceneRuns>>

player_position ==
    /\ Runs("player_position") /\ Ran("player_position")
    /\ IF IsSingle(Players)
       THEN LET e == Single(Players)
            IN world' = [world EXCEPT ![e].v = ApplyKeys(world[e].v, keys)]
       ELSE UNCHANGED world
    /\ UNCHANGED <<dataJson, loadState, scenes, appState, nextState, board,
                   nextEntity, commands, phase, keys, dt, frame, crashed,
                   loadSceneRuns>>

\* n / d rounded to the nearest integer (d > 0)
RoundDiv(n, d) == (2 * n + d) \div (2 * d)

DistSq(a, b) == (a[1] - b[1]) * (a[1] - b[1]) + (a[2] - b[2]) * (a[2] - b[2])
                + (a[3] - b[3]) * (a[3] - b[3])

\* (target - translation).length() > POSITION_TOLERANCE
BeyondTolerance(p, t) ==
    DistSq(p, t) > (Scale * Scale) \div (POSITION_TOLERANCE_INV * POSITION_TOLERANCE_INV)

\* Vec3::lerp(self, rhs, s) = self + (rhs - self) * s, s = PLAYER_SPEED * delta_seconds
Lerp(p, t, ms) ==
    [k \in 1..3 |-> p[k] + RoundDiv((t[k] - p[k]) * PLAYER_SPEED * ms, 1000)]

\* a tick that never snaps
MoveStep_NoSnap(p, t, ms) == Lerp(p, t, ms)

MoveStep(p, t, ms) == IF BeyondTolerance(p, t) THEN Lerp(p, t, ms) ELSE t

MovablePlayers == {e \in Players : world[e].v # NoVec /\ world[e].translation # NoVec}

update_player_position ==
    /\ Runs("update_player_position") /\ Ran("update_player_position")
    /\ IF IsSingle(MovablePlayers)
       THEN LET e == Single(MovablePlayers)
            IN world' = [world EXCEPT ![e].translation =
                    MoveStep(world[e].translation, get_world_position(world[e].v), dt)]
       ELSE UNCHANGED world
    /\ UNCHANGED <<dataJson, loadState, scenes, appState, nextState, board,
                   nextEntity, commands, phase, keys, dt, frame, crashed,
                   loadSceneRuns>>

FollowedPlayers == {e \in Players : world[e].translation # NoVec /\ ~world[e].camera}

\* the camera translation camera_follow_player assigns
FollowTranslation(cam, player) == player

camera_follow_player ==
    /\ Runs("camera_follow_player") /\ Ran("camera_follow_player")
    /\ IF IsSingle(Cameras) /\ IsSingle(FollowedPlayers)
       THEN LET c == Single(Cameras)
                e == Single(FollowedPlayers)
            IN world' = [world EXCEPT ![c].translation =
                    FollowTranslation(world[c].translation, world[e].translation)]
       ELSE UNCHANGED world
    /\ UNCHANGED <<dataJson, loadState, scenes, appState, nextState, board,
                   nextEntity, commands, phase, keys, dt, frame, crashed,
                   loadSceneRuns>>

Clamp(x, lo, hi) == IF x < lo THEN lo ELSE IF x > hi THEN hi ELSE x

zoom_2d ==
    /\ Runs("zoom_2d") /\ Ran("zoom_2d")
    /\ IF IsSingle(Cameras)
       THEN LET c == Single(Cameras)
            IN /\ world' = [world EXCEPT ![c].scale =
                    Clamp(RoundDiv(world[c].scale * ZOOM_FACTOR_TENTHS, 10),
                          ZOOM_MIN, ZOOM_MAX)]
               /\ UNCHANGED crashed
       ELSE /\ crashed' = TRUE      \* Query::single_mut panics
            /\ UNCHANGED world
    /\ UNCHANGED <<dataJson, loadState, scenes, appState, nextState, board,
                   nextEntity, commands, phase, keys, dt, frame, loadSceneRuns>>

----------------------------------------------------------------------------
(* The whole program *)

\* after the startup systems load_assets and spawn_camera
InitWith(sceneFiles) ==
    /\ dataJson \in sceneFiles
    /\ loadState = [a \in AssetIds |-> "NotLoaded"]
    /\ scenes = <<>>
    /\ appState = "Loading"
    /\ nextState = "None"
    /\ board = {}
    /\ world = (CameraEntity :> spawn_camera)
    /\ nextEntity = CameraEntity + 1
    /\ commands = <<>>
    /\ phase = "First"
    /\ pending = {}
    /\ keys = {}
    /\ dt = 0
    /\ frame = 0
    /\ crashed = FALSE
    /\ loadSceneRuns = 0

Init == InitWith(MainScenes)

Next ==
    \/ FrameFirst(MainChords, MainDeltas)
    \/ apply_state_transition
    \/ load_scene
    \/ load_player
    \/ apply_system_buffers
    \/ check_asset_loading
    \/ spawn_scene_renderer
    \/ spawn_player_renderer
    \/ player_position
    \/ update_player_position
    \/ camera_follow_player
    \/ zoom_2d

Spec == Init /\ [][Next]_vars

----------------------------------------------------------------------------
(* The scene decode on its own: the frame that enters Game, for many scene   *)
(* files.  It starts where the whole program stands once every asset has     *)
(* loaded and check_asset_loading has asked for Game.                        *)

DecodeLayers ==
    {<<>>, LayerOf(1024, <<>>),
     LayerOf(1024, (0 :> Raw(1)) @@ (1 :> Raw(2))),
     LayerOf(1024, (0 :> RawBig(0))),
     LayerOf(1024, (0 :> Raw(1))), LayerOf(1024, (0 :> Raw(96))),
     LayerOf(1024, (31 :> Raw(96))), LayerOf(1024, (32 :> RawBig(5))),
     LayerOf(1024, (1023 :> Raw(1)))}

DecodeScenes == ScenesOver(DecodeLayers)

InitDecode ==
    /\ dataJson \in DecodeScenes
    /\ loadState = [a \in AssetIds |-> "Loaded"]
    /\ scenes = <<dataJson>>
    /\ appState = "Loading"
    /\ nextState = "Game"
    /\ board = {}
    /\ world = (CameraEntity :> [spawn_camera EXCEPT !.scale =
                    RoundDiv(ZoomOne * ZOOM_FACTOR_TENTHS, 10)])
    /\ nextEntity = CameraEntity + 1
    /\ commands = <<>>
    /\ phase = "StateTransitions"
    /\ pending = {}
    /\ keys = {}
    /\ dt = 50
    /\ frame = 2
    /\ crashed = FALSE
    /\ loadSceneRuns = 0

NextDecode ==
    \/ apply_state_transition
    \/ load_scene
    \/ load_player
    \/ apply_system_buffers

SpecDecode == InitDecode /\ [][NextDecode]_vars

----------------------------------------------------------------------------
(* The movement systems on their own: one Update of the Game state, for many *)
(* targets, continuous positions, key chords and frame deltas.  It starts    *)
(* where a frame stands once the renderer systems and zoom_2d have run.      *)

MoveOffsets == {-1600, -11, -7, 0, 7, 10, 800}
MoveDeltas == {16, 50, 100, 150, 200}
PlayerEntity == 1

InitMove ==
    /\ dataJson = <<>>
    /\ loadState = [a \in AssetIds |-> "Loaded"]
    /\ scenes = <<>>
    /\ appState = "Game"
    /\ nextState = "None"
    /\ board = {}
    /\ \E x \in (0 - MaxCoord)..MaxCoord, y \in (0 - MaxCoord)..MaxCoord,
          ox \in MoveOffsets, oy \in MoveOffsets :
          LET v == Vector3Int(x, y, PLAYER_Z)
              t == get_world_position(v)
              p == <<t[1] + ox, t[2] + oy, t[3]>>
          IN world = (CameraEntity :> [spawn_camera EXCEPT !.scale = ZOOM_MIN,
                                                           !.translation = p])
                     @@ (PlayerEntity :> [Blank EXCEPT !.player = TRUE, !.v = v,
                                                        !.translation = p,
                                                        !.sprite = PLAYER_SPRITE])
    /\ nextEntity = PlayerEntity + 1
    /\ commands = <<>>
    /\ phase = "Update"
    /\ pending = {"player_position", "update_player_position", "camera_follow_player"}
    /\ keys \in {ks \in SUBSET Keys : ChordAllowed(ks)}
    /\ dt \in MoveDeltas
    /\ frame = MaxFrames
    /\ crashed = FALSE
    /\ loadSceneRuns = 1

NextMove ==
    \/ player_position
    \/ update_player_position
    \/ camera_follow_player
    \/ apply_system_buffers

SpecMove == InitMove /\ [][NextMove]_vars

----------------------------------------------------------------------------
(* The Game state left alone: frame after frame with no key pressed, from a  *)
(* player standing at or away from its target.  The frames are not counted,  *)
(* the run loop never stops.                                                 *)

SettleOffsets == {0, 7, 1600}
SettleDeltas == {50, 200}

\* the start of a frame in which no key is pressed and every asset is loaded
FrameIdle(deltas) ==
    /\ phase = "First" /\ ~crashed
    /\ phase' = "StateTransitions"
    /\ keys' = {}
    /\ \E d \in deltas : dt' = d
    /\ UNCHANGED <<dataJson, loadState, scenes, appState, nextState, board, world,
                   nextEntity, commands, pending, frame, crashed, loadSceneRuns>>

InitSettle ==
    /\ dataJson = <<>>
    /\ loadState = [a \in AssetIds |-> "Loaded"]
    /\ scenes = <<>>
    /\ appState = "Game"
    /\ nextState = "None"
    /\ board = {}
    /\ \E x \in (0 - MaxCoord)..MaxCoord, ox \in SettleOffsets :
          LET v == Vector3Int(x, 0, PLAYER_Z)
              t == get_world_position(v)
              p == <<t[1] + ox, t[2], t[3]>>
          IN world = (CameraEntity :> [spawn_camera EXCEPT !.scale = ZOOM_MIN,
                                                           !.translation = p])
                     @@ (PlayerEntity :> [Blank EXCEPT !.player = TRUE, !.v = v,
                                                        !.translation = p,
                                                        !.sprite = PLAYER_SPRITE])
    /\ nextEntity = PlayerEntity + 1
    /\ commands = <<>>
    /\ phase = "First"
    /\ pending = {}
    /\ keys = {}
    /\ dt \in SettleDeltas
    /\ frame = MaxFrames
    /\ crashed = FALSE
    /\ loadSceneRuns = 1

NextSettle ==
    \/ FrameIdle(SettleDeltas)
    \/ apply_state_transition
    \/ spawn_scene_renderer
    \/ spawn_player_renderer
    \/ player_position
    \/ update_player_position
    \/ camera_follow_player
    \/ zoom_2d
    \/ apply_system_buffers

\* the run loop keeps running frames, and every frame runs every system
SpecSettle == InitSettle /\ [][NextSettle]_vars /\ WF_vars(NextSettle)

----------------------------------------------------------------------------
(* The Game state with the right key just pressed in every frame, from any   *)
(* target of the box, the player standing at it or away from it.  `frame'    *)
(* counts the frames of the run of presses.                                  *)

RightChords == {{"D"}}
RightOffsets == {0, 800}
RightDeltas == {50, 200}

InitRight ==
    /\ dataJson = <<>>
    /\ loadState = [a \in AssetIds |-> "Loaded"]
    /\ scenes = <<>>
    /\ appState = "Game"
    /\ nextState = "None"
    /\ board = {}
    /\ \E x \in (0 - MaxCoord)..MaxCoord, y \in (0 - MaxCoord)..MaxCoord,
          ox \in RightOffsets :
          LET v == Vector3Int(x, y, PLAYER_Z)
              t == get_world_position(v)
              p == <<t[1] + ox, t[2], t[3]>>
          IN world = (CameraEntity :> [spawn_camera EXCEPT !.scale = ZOOM_MIN,
                                                           !.translation = p])
                     @@ (PlayerEntity :> [Blank EXCEPT !.player = TRUE, !.v = v,
                                                        !.translation = p,
                                                        !.sprite = PLAYER_SPRITE])
    /\ nextEntity = PlayerEntity + 1
    /\ commands = <<>>
    /\ phase = "First"
    /\ pending = {}
    /\ keys = {}
    /\ dt \in RightDeltas
    /\ frame = 0
    /\ crashed = FALSE
    /\ loadSceneRuns = 1

NextRight ==
    \/ FrameFirst(RightChords, RightDeltas)
    \/ apply_state_transition
    \/ spawn_scene_renderer
    \/ spawn_player_renderer
    \/ player_position
    \/ update_player_position
    \/ camera_follow_player
    \/ zoom_2d
    \/ apply_system_buffers

SpecRight == InitRight /\ [][NextRight]_vars

----------------------------------------------------------------------------
(* The per-frame systems against every result their singleton queries can    *)
(* give: one Update over worlds with zero, one or two cameras and zero, one  *)
(* or two players.  The program itself always holds exactly one camera       *)
(* (spawn_camera) and at most one player (load_player); the other worlds are *)
(* the cases of the missing-singleton contract.                              *)

QueryCounts == {0, 1, 2}
QueryOffsets == {0, 800}
QueryChords == {{}, {"D"}}

\* a world of nc cameras and np players, the players ox away from their target
QueryWorld(nc, np, ox) ==
    [e \in 0..(nc + np - 1) |->
        IF e < nc
        THEN [spawn_camera EXCEPT !.scale = ZOOM_MIN]
        ELSE LET v == Vector3Int(0, 0, PLAYER_Z)
                 t == get_world_position(v)
             IN [Blank EXCEPT !.player = TRUE, !.v = v,
                              !.translation = <<t[1] + ox, t[2], t[3]>>,
                              !.sprite = PLAYER_SPRITE]]

InitQuery ==
    /\ dataJson = <<>>
    /\ loadState = [a \in AssetIds |-> "Loaded"]
    /\ scenes = <<>>
    /\ appState = "Game"
    /\ nextState = "None"
    /\ board = {}
    /\ \E nc \in QueryCounts, np \in QueryCounts, ox \in QueryOffsets :
          /\ world = QueryWorld(nc, np, ox)
          /\ nextEntity = nc + np
    /\ commands = <<>>
    /\ phase = "Update"
    /\ pending = UpdateSystems("Game")
    /\ keys \in QueryChords
    /\ dt \in MainDeltas
    /\ frame = MaxFrames
    /\ crashed = FALSE
    /\ loadSceneRuns = 1

NextQuery ==
    \/ spawn_scene_renderer
    \/ spawn_player_renderer
    \/ player_position
    \/ update_player_position
    \/ camera_follow_player
    \/ zoom_2d
    \/ apply_system_buffers

SpecQuery == InitQuery /\ [][NextQuery]_vars

----------------------------------------------------------------------------
(* Properties *)

\* load_scene has run and its tile entities exist
Decoded == loadSceneRuns = 1 /\ phase = "Update" /\ ~crashed

CellsOf(s) == UNION {{<<l, p>> : p \in 0..(Len(s[l]) - 1)} : l \in 1..Len(s)}

\* the tile decoded from cell c of the scene file
TilesFrom(c) == {e \in Tiles : world[e].src = <<c[1] - 1, c[2]>>}

\* i = raw - 1, for a raw value below 2^32
IsRawMinusOne(i, raw) ==
    IF raw.hi = 0 THEN i = raw.lo - 1 ELSE raw.lo = 0 /\ i = MaxI32

\* C1: once load_scene has run, a tile exists for a cell if and only if the
\* cell's raw value is not 0, the tile of raw value r carries sprite index
\* r - 1, and there are as many tiles as non-zero cells.
C1_TileIffNonZero ==
    Decoded =>
        LET nz == {c \in CellsOf(dataJson) : CellRaw(dataJson, c) # RawZero}
        IN /\ \A c \in CellsOf(dataJson) : (c \in nz) <=> (TilesFrom(c) # {})
           /\ \A e \in Tiles :
                IsRawMinusOne(world[e].tile,
                    CellRaw(dataJson, <<world[e].src[1] + 1, world[e].src[2]>>))
           /\ Cardinality(Tiles) = Cardinality(nz)

C3_LayerIsZ ==
    \A e \in Tiles : world[e].v[3] = world[e].src[1]

\* C4: once load_scene has run, every tile entity has a board entry of its
\* own, so the board has as many entries as there are tile entities.
C4_LayersCoexist ==
    Decoded =>
        /\ \A e \in Tiles : [k |-> world[e].v, e |-> e] \in board
        /\ Cardinality(board) = Cardinality(Tiles)

\* the tiles placed at position k
TilesAt(k) == {e \in Tiles : VecEq(world[e].v, k)}

\* C5: the board holds at most one entry per grid position, and the entry at
\* a position is the entity inserted there last.
C5_LastWriteWins ==
    Decoded =>
        /\ \A x \in board, y \in board : VecEq(x.k, y.k) => x = y
        /\ \A e \in Tiles :
            BoardLookup(board, world[e].v) =
                {CHOOSE m \in TilesAt(world[e].v) : \A o \in TilesAt(world[e].v) : o <= m}

C5_Witness ==
    /\ Decoded
    /\ \E e1 \in Tiles, e2 \in Tiles :
        /\ e1 < e2
        /\ VecEq(world[e1].v, world[e2].v)
        /\ BoardLookup(board, world[e1].v) = {e2}

AllLoaded == \A a \in AssetIds : loadState[a] = "Loaded"
AnyFailed == \E a \in AssetIds : loadState[a] = "Failed"

\* C6: the state goes from Loading to Game only in a frame where every tracked
\* asset is loaded, never while an asset has failed, never back to Loading, and
\* no second transition is ever requested once in Game.
C6_LoadingGate ==
    [][/\ (appState = "Loading" /\ appState' = "Game") => AllLoaded
       /\ AnyFailed => (appState' = "Loading" /\ nextState' = "None")
       /\ appState = "Game" => (appState' = "Game" /\ nextState' = "None")]_vars

C6_Witness == appState = "Game" /\ AllLoaded /\ frame = MaxFrames /\ phase = "First"

\* C7: load_scene runs once, in the frame that enters Game and with every
\* tracked asset loaded; it has run whenever the Update systems run in Game;
\* the board changes only in that run and never loses an entry, and no tile
\* entity is created later.
C7_DecodeOnce ==
    [][/\ loadSceneRuns' <= 1
       /\ loadSceneRuns' # loadSceneRuns =>
            (phase = "OnEnter" /\ appState = "Game" /\ AllLoaded)
       /\ (appState' = "Game" /\ phase' # "OnEnter") => loadSceneRuns' = 1
       /\ board' # board => (loadSceneRuns = 0 /\ loadSceneRuns' = 1)
       /\ \A x \in board : x \in board'
       /\ Tiles' # Tiles => (phase = "OnEnter" /\ loadSceneRuns = 1)]_vars

C7_Witness ==
    /\ loadSceneRuns = 1 /\ board # {} /\ Tiles # {}
    /\ frame = MaxFrames /\ phase = "First"

\* C8: when the Update systems of a frame have run and a player with a
\* continuous position and a camera exist, the camera is at the player's
\* continuous position.
C8_CameraNoLag ==
    (phase = "Update" /\ pending = {} /\ IsSingle(Cameras) /\ IsSingle(MovablePlayers))
        => world[Single(Cameras)].translation
             = world[Single(MovablePlayers)].translation

\* update_player_position runs in this step
MoveTick ==
    /\ phase = "Update" /\ "update_player_position" \in pending
    /\ "update_player_position" \notin pending'
    /\ IsSingle(MovablePlayers)

ToleranceSq ==
    (Scale \div POSITION_TOLERANCE_INV) * (Scale \div POSITION_TOLERANCE_INV)

\* C9: a run of update_player_position that finds the continuous position
\* within 0.1 of the target's world projection T sets it to T.
C9_SettleBranch ==
    [][LET e == Single(MovablePlayers)
           t == get_world_position(world[e].v)
       IN (MoveTick /\ DistSq(world[e].translation, t) <= ToleranceSq)
            => world'[e].translation = t]_vars

C9_Witness ==
    /\ phase = "Update" /\ pending = {"player_position", "camera_follow_player"}
    /\ IsSingle(MovablePlayers) /\ IsSingle(Cameras)
    /\ LET e == Single(MovablePlayers)
           c == Single(Cameras)
       IN /\ world[e].translation = get_world_position(world[e].v)
          /\ DistSq(world[c].translation, world[e].translation) \in 1..ToleranceSq

\* C10: a run of update_player_position that finds the continuous position
\* farther than 0.1 from T strictly decreases the distance to T and does not
\* move the position past T.
C10_ApproachDecreases ==
    [][LET e == Single(MovablePlayers)
           t == get_world_position(world[e].v)
           p == world[e].translation
           q == world'[e].translation
       IN (MoveTick /\ DistSq(p, t) > ToleranceSq)
            => /\ DistSq(q, t) < DistSq(p, t)
               /\ \A k \in 1..3 : (t[k] - p[k]) * (t[k] - q[k]) >= 0]_vars

\* the player's continuous position is the world projection of its target
Settled ==
    \A e \in MovablePlayers : world[e].translation = get_world_position(world[e].v)

\* C11: with no further directional input, the player's continuous position
\* eventually equals the world projection of its target and stays equal on
\* every later frame.
C11_EventuallySettled == <>[]Settled

\* the frames whose key press player_position has applied
PressesApplied ==
    IF phase = "StateTransitions" \/ (phase = "Update" /\ "player_position" \in pending)
    THEN frame - 1 ELSE frame

\* C12: over frames that each have the right key just pressed, the player's
\* target is its starting target moved by one grid unit in +x per frame, with
\* y and z as they were: x minus the number of presses applied never changes,
\* nor do y and z, from a player at its target or away from it.
C12_RightAccumulates ==
    [][/\ world'[PlayerEntity].v[1] - PressesApplied'
            = world[PlayerEntity].v[1] - PressesApplied
       /\ world'[PlayerEntity].v[2] = world[PlayerEntity].v[2]
       /\ world'[PlayerEntity].v[3] = world[PlayerEntity].v[3]]_vars

\* two presses applied, the second one to a player away from its target
C12_Witness ==
    /\ phase = "First" /\ frame = 2
    /\ world[PlayerEntity].v[1] = 2 - MaxCoord
    /\ world[PlayerEntity].translation # get_world_position(world[PlayerEntity].v)

\* player_position runs in this step
InputTick ==
    /\ phase = "Update" /\ "player_position" \in pending
    /\ "player_position" \notin pending'

\* 1 when key k is just pressed in this frame, else 0
Pressed(k) == IF k \in keys THEN 1 ELSE 0

\* C13: a run of player_position moves the target by the sum of the deltas of
\* all the keys just pressed in the frame: +x for D, -x for A, +y for W, -y
\* for S, so opposite keys cancel and two perpendicular keys give a diagonal
\* step.
C13_ChordSum ==
    [][InputTick =>
        world'[PlayerEntity].v =
            <<world[PlayerEntity].v[1] + Pressed("D") - Pressed("A"),
              world[PlayerEntity].v[2] + Pressed("W") - Pressed("S"),
              world[PlayerEntity].v[3]>>]_vars

\* W and D pressed together, player_position has run and nothing else: the
\* player still stands at the projection of the target one diagonal step back
C13_Witness ==
    /\ phase = "Update" /\ keys = {"W", "D"}
    /\ pending = {"update_player_position", "camera_follow_player"}
    /\ LET v == world[PlayerEntity].v
       IN world[PlayerEntity].translation
            = get_world_position(<<v[1] - 1, v[2] - 1, v[3]>>)

\* system sys runs in this step
SystemTick(sys) == phase = "Update" /\ sys \in pending /\ sys \notin pending'

\* the targets, continuous positions and camera of a world
Placement(w) == [e \in DOMAIN w |-> <<w[e].v, w[e].translation, w[e].scale>>]

C15_TargetOnlyByInput ==
    [][/\ \A e \in Players \cap Players' :
            world'[e].v # world[e].v
                => (SystemTick("player_position") /\ keys # {})
       /\ SystemTick("player_position")
            => \A e \in DOMAIN world :
                    world'[e].translation = world[e].translation]_vars

\* D pressed, player_position has run, update_player_position has not: the
\* target has moved, the player and the camera have not
C15_Witness ==
    /\ phase = "Update" /\ keys = {"D"}
    /\ "player_position" \notin pending /\ "update_player_position" \in pending
    /\ "camera_follow_player" \in pending
    /\ IsSingle(MovablePlayers) /\ IsSingle(Cameras)
    /\ LET e == Single(MovablePlayers)
       IN /\ world[e].v = Vector3Int(1, 0, PLAYER_Z)
          /\ world[e].translation = get_world_position(Vector3Int(0, 0, PLAYER_Z))
          /\ world[Single(Cameras)].translation = world[e].translation

\* the queued renderer insertions that are not the player's
TileInserts ==
    {k \in DOMAIN commands :
        commands[k].op = "insert" /\ commands[k].e \notin Players}

\* C16: a renderer is queued for a tile only once the tile entity and its
\* grid position exist and only while the tile has none, at most once per
\* tile; it carries the tile's sprite index and the transform
\* (16*x, 16*y, z) of the tile's grid position; every tile has its renderer
\* when the frame that created it ends, and keeps it unchanged afterwards.
C16_RendererOnce ==
    /\ \A k \in TileInserts :
        LET c == commands[k]
        IN /\ c.e \in Tiles
           /\ world[c.e].v # NoVec
           /\ world[c.e].translation = NoVec
           /\ c.sprite = world[c.e].tile
           /\ c.translation = <<16 * Scale * world[c.e].v[1],
                                16 * Scale * world[c.e].v[2],
                                Scale * world[c.e].v[3]>>
           /\ \A j \in TileInserts : commands[j].e = c.e => j = k
    /\ \A e \in Tiles :
        world[e].translation # NoVec =>
            /\ world[e].sprite = world[e].tile
            /\ world[e].translation = <<16 * Scale * world[e].v[1],
                                        16 * Scale * world[e].v[2],
                                        Scale * world[e].v[3]>>
    /\ (phase = "First" /\ loadSceneRuns = 1) =>
            \A e \in Tiles : world[e].translation # NoVec

\* the last frame has ended, every tile has its renderer, and the player has
\* moved since its own renderer was attached: at least two frames of Game
C16_Witness ==
    /\ phase = "First" /\ frame = MaxFrames /\ Tiles # {}
    /\ \A e \in Tiles : world[e].translation # NoVec
    /\ \E e \in MovablePlayers :
        world[e].translation # get_world_position(Vector3Int(0, 0, PLAYER_Z))

\* C17: there is never more than one player; it is created in OnEnter(Game)
\* with target (0, 0, 5) and exists whenever the Update systems of Game run;
\* the first continuous position it is given is the world projection of the
\* target it has at that moment.
C17_PlayerStartsSettled ==
    [][/\ Cardinality(Players') <= 1
       /\ Players' # Players =>
            /\ phase = "OnEnter" /\ appState = "Game" /\ Players = {}
            /\ \A e \in Players' : world'[e].v = <<0, 0, 5>>
       /\ (appState' = "Game" /\ phase' # "OnEnter") => IsSingle(Players')
       /\ \A e \in Players \cap Players' :
            (world[e].translation = NoVec /\ world'[e].translation # NoVec)
                => world'[e].translation = <<16 * Scale * world'[e].v[1],
                                             16 * Scale * world'[e].v[2],
                                             Scale * world'[e].v[3]>>]_vars

\* the scene file has no layer, or only layers without cells
NoCells == \A l \in 1..Len(dataJson) : Len(dataJson[l]) = 0

\* C18: once load_scene has run on a scene whose layers list is empty or
\* whose layers are all empty, no tile is queued for creation, no tile entity
\* exists and the board is empty.
C18_EmptySceneNoTiles ==
    (loadSceneRuns = 1 /\ NoCells) =>
        /\ board = {}
        /\ Tiles = {}
        /\ \A k \in DOMAIN commands :
            ~(commands[k].op = "spawn" /\ commands[k].tile >= 0)

\* two empty layers decoded, the commands of OnEnter(Game) applied: the
\* player exists, no tile does
C18_Witness ==
    /\ Decoded /\ dataJson = <<<<>>, <<>>>>
    /\ Players # {} /\ Tiles = {} /\ board = {}

====
